---- MODULE Spec2Model ----
(***************************************************************************)
(* Model of backend/controllers/eventController.js: the createEvent,       *)
(* updateEvent and deleteEvent request handlers over the Event and         *)
(* Geofence collections.                                                   *)
(*                                                                         *)
(* Every `await` of a handler is one atomic persistence call; a step of    *)
(* the model is one persistence call together with the handler code that   *)
(* runs up to the next `await` (or up to the response).  Handlers of       *)
(* different requests interleave at their `await`s.                        *)
(*                                                                         *)
(* An optional JavaScript value is a sequence: <<>> is undefined/null and  *)
(* <<v>> is the value v.                                                   *)
(***************************************************************************)
EXTENDS Integers, FiniteSets, Sequences, Bags, TLC

\* ---------------------------------------------------------------- bounds
\* Number of Event ids the persistence layer can hand out.
MaxEvents == 2
\* Number of requests whose handlers can be suspended at an await at once.
MaxInFlight == 2
\* Number of requests received in one behaviour.
MaxRequests == 2

\* ------------------------------------------------------- identity context
Users == {"u1", "u2", "u3"}

\* req.user.role of each req.user.id, as attached by the upstream middleware.
Role == [u \in Users |-> CASE u = "u1" -> "ngo" [] u = "u2" -> "user" [] OTHER -> "admin"]

\* ------------------------------------------------------------ request data
Absent == <<>>
Some(v) == <<v>>

Coordinates == {[latitude |-> 1, longitude |-> 2], [latitude |-> 2, longitude |-> 1]}

\* Default radius of a Geofence (the literal of `|| 500`).
DefaultRadius == 500
\* Default trafficImpact.level of a Geofence (the literal of `|| 'low'`).
DefaultLevel == "low"

RadiusInputs == {Absent, Some(0), Some(200)}
LevelInputs == {Absent, Some("high")}
\* A body names no organizer, or a user who cannot create Events.
OrganizerInputs == {Absent, Some("u2")}

\* Bodies of POST /api/events: coordinates are present (an Event is located).
CreateBodies == [organizer : OrganizerInputs, coordinates : {Some(c) : c \in Coordinates},
                 geofenceRadius : RadiusInputs, trafficImpact : LevelInputs]

\* Bodies of PUT /api/events/:id: every field is optional.
UpdateBodies == [organizer : OrganizerInputs,
                 coordinates : {Absent} \cup {Some(c) : c \in Coordinates},
                 geofenceRadius : RadiusInputs, trafficImpact : LevelInputs]

EmptyBody == [organizer |-> Absent, coordinates |-> Absent,
              geofenceRadius |-> Absent, trafficImpact |-> Absent]

EventIds == 1 .. MaxEvents

\* ------------------------------------------------------------------ state
VARIABLES
    events,          \* the Event collection: a set of documents
    geofences,       \* the Geofence collection: a set of documents
    nextEventId,     \* the next _id Event.create generates
    nextGeofenceId,  \* the next _id Geofence.create generates
    inflight,        \* bag of handlers suspended at an await
    started,         \* number of requests received so far
    response,        \* the last response sent (status) and the request it answers
    creator          \* history: the user whose createEvent persisted each Event id

vars == <<events, geofences, nextEventId, nextGeofenceId, inflight, started, response, creator>>

stores == <<events, geofences>>

\* -------------------------------------------------------- pure operators
\* `req.body.geofenceRadius || 500`: undefined and 0 are falsy.
RadiusOrDefault(x) == IF x = Absent \/ x[1] = 0 THEN DefaultRadius ELSE x[1]

\* `req.body.trafficImpact || 'low'`: undefined and '' are falsy.
LevelOrDefault(x) == IF x = Absent \/ x[1] = "" THEN DefaultLevel ELSE x[1]

\* Variant of SetOrganizer: an organizer the body supplies is kept.
SetOrganizer_KeepSupplied(body, user) ==
    IF body.organizer = Absent THEN [body EXCEPT !.organizer = Some(user)] ELSE body

\* `req.body.organizer = req.user.id`
SetOrganizer(body, user) == [body EXCEPT !.organizer = Some(user)]

\* Variant of CreateForbidden: the role "user" is let through as well.
CreateForbidden_UserAllowed(user) ==
    Role[user] # "ngo" /\ Role[user] # "admin" /\ Role[user] # "user"

\* `req.user.role !== 'ngo' && req.user.role !== 'admin'`
CreateForbidden(user) == Role[user] # "ngo" /\ Role[user] # "admin"

\* Event.findById(id): the document or null.
FindById(id) == IF \E e \in events : e._id = id
                THEN Some(CHOOSE e \in events : e._id = id)
                ELSE Absent

\* Variant of AccessStatus: the ownership test is replaced by the role test
\* of createEvent.
AccessStatus_RoleOnly(event, user) ==
    IF event = Absent THEN 404
    ELSE IF Role[user] # "ngo" /\ Role[user] # "admin" THEN 403
    ELSE 0

\* Variant of AccessStatus: the caller is authorized before the Event is
\* looked at.
AccessStatus_AuthorizeFirst(event, user) ==
    IF Role[user] # "admin" /\ (event = Absent \/ event[1].organizer # user) THEN 403
    ELSE IF event = Absent THEN 404
    ELSE 0

\* The checks of updateEvent and deleteEvent after Event.findById:
\* 404 when the event is null, then 403 when the caller is neither the
\* organizer nor an admin, else 0 (the handler goes on).
AccessStatus(event, user) ==
    IF event = Absent THEN 404
    ELSE IF event[1].organizer # user /\ Role[user] # "admin" THEN 403
    ELSE 0

\* The document Event.findByIdAndUpdate(id, body, {new: true}) writes over e.
ApplyUpdate(e, body) ==
    [e EXCEPT !.organizer = IF body.organizer = Absent THEN @ ELSE body.organizer[1],
              !.coordinates = IF body.coordinates = Absent THEN @ ELSE body.coordinates[1]]

\* Variant of NewGeofence: the radius is the default whatever the body says.
NewGeofence_DefaultRadius(gid, event, body, user) ==
    [_id |-> gid,
     event |-> event._id,
     radius |-> DefaultRadius,
     center |-> [latitude |-> event.coordinates.latitude,
                 longitude |-> event.coordinates.longitude],
     level |-> LevelOrDefault(body.trafficImpact),
     createdBy |-> user]

\* The document Geofence.create is given by createEvent.
NewGeofence(gid, event, body, user) ==
    [_id |-> gid,
     event |-> event._id,
     radius |-> RadiusOrDefault(body.geofenceRadius),
     center |-> [latitude |-> event.coordinates.latitude,
                 longitude |-> event.coordinates.longitude],
     level |-> LevelOrDefault(body.trafficImpact),
     createdBy |-> user]

\* Variant of UpdatedGeofence: radius and level are written only when the
\* body supplies them.
UpdatedGeofence_KeepOmitted(g, body) ==
    [g EXCEPT !.center = [latitude |-> body.coordinates[1].latitude,
                          longitude |-> body.coordinates[1].longitude],
              !.radius = IF body.geofenceRadius = Absent THEN @
                         ELSE RadiusOrDefault(body.geofenceRadius),
              !.level = IF body.trafficImpact = Absent THEN @
                        ELSE LevelOrDefault(body.trafficImpact)]

\* The update Geofence.findOneAndUpdate is given by updateEvent, applied to g.
UpdatedGeofence(g, body) ==
    [g EXCEPT !.center = [latitude |-> body.coordinates[1].latitude,
                          longitude |-> body.coordinates[1].longitude],
              !.radius = RadiusOrDefault(body.geofenceRadius),
              !.level = LevelOrDefault(body.trafficImpact)]

\* What updateEvent and deleteEvent read of a fetched Event document once the
\* checks are done (`event._id`, lines 106 and 154; deleteOne goes by _id).
IdOf(event) == [_id |-> event._id]

\* The user of the response that Init holds: none was sent yet.
NoUser == "-"

\* A handler suspended at an await: the call it awaits (pc) and the locals
\* the rest of the handler reads.
Handler(op, pc, user, id, body, event) ==
    [op |-> op, pc |-> pc, user |-> user, id |-> id, body |-> body, event |-> event]

Respond(op, status, user, id) == [op |-> op, status |-> status, user |-> user, id |-> id]

Suspend(h) == inflight' = inflight (+) SetToBag({h})
Resume(h, h2) == inflight' = (inflight (-) SetToBag({h})) (+) SetToBag({h2})
Finish(h) == inflight' = inflight (-) SetToBag({h})

CanReceive == started < MaxRequests
CanSuspend == BagCardinality(inflight) < MaxInFlight

NoResponse == Respond("none", 0, NoUser, 0)

Init ==
    /\ events = {}
    /\ geofences = {}
    /\ nextEventId = 1
    /\ nextGeofenceId = 1
    /\ inflight = EmptyBag
    /\ started = 0
    /\ response = NoResponse
    /\ creator = [i \in EventIds |-> "none"]

\* ------------------------------------------------------------ createEvent
\* Lines 42-50: the role check throws 403 before any persistence call.  The
\* body is written (line 42) and not read on this path.
createEvent_Forbidden(user) ==
    /\ CanReceive
    /\ CreateForbidden(user)
    /\ started' = started + 1
    /\ response' = Respond("create", 403, user, 0)
    /\ UNCHANGED <<events, geofences, nextEventId, nextGeofenceId, inflight, creator>>

\* Lines 42-52: Event.create(req.body) with the organizer overwritten.
createEvent_EventCreate(user, body) ==
    /\ CanReceive
    /\ CanSuspend
    /\ nextEventId <= MaxEvents
    /\ ~CreateForbidden(user)
    /\ LET b == SetOrganizer(body, user)
           event == [_id |-> nextEventId,
                     organizer |-> b.organizer[1],
                     coordinates |-> b.coordinates[1]]
       IN /\ events' = events \cup {event}
          /\ creator' = [creator EXCEPT ![event._id] = user]
          /\ Suspend(Handler("create", "Geofence.create", user, event._id, b, Some(event)))
    /\ nextEventId' = nextEventId + 1
    /\ started' = started + 1
    /\ UNCHANGED <<geofences, nextGeofenceId, response>>

\* Lines 55-72: Geofence.create(...) and the 201 response.
createEvent_GeofenceCreate(h) ==
    /\ h.op = "create" /\ h.pc = "Geofence.create"
    /\ geofences' = geofences \cup {NewGeofence(nextGeofenceId, h.event[1], h.body, h.user)}
    /\ nextGeofenceId' = nextGeofenceId + 1
    /\ Finish(h)
    /\ response' = Respond("create", 201, h.user, h.id)
    /\ UNCHANGED <<events, nextEventId, started, creator>>

\* ------------------------------------------------------------ updateEvent
\* Lines 81-96: Event.findById, then a 404 or 403 check throws.  The body is
\* not read on this path.
updateEvent_Rejected(user, id) ==
    /\ CanReceive
    /\ AccessStatus(FindById(id), user) # 0
    /\ response' = Respond("update", AccessStatus(FindById(id), user), user, id)
    /\ started' = started + 1
    /\ UNCHANGED <<events, geofences, nextEventId, nextGeofenceId, inflight, creator>>

\* Lines 81-98: Event.findById, the checks pass, and the handler awaits
\* Event.findByIdAndUpdate.  The fetched document is not read again: line 98
\* assigns `event` anew.
updateEvent_FindById(user, id, body) ==
    /\ CanReceive
    /\ CanSuspend
    /\ AccessStatus(FindById(id), user) = 0
    /\ Suspend(Handler("update", "Event.findByIdAndUpdate", user, id, body, Absent))
    /\ started' = started + 1
    /\ UNCHANGED <<events, geofences, nextEventId, nextGeofenceId, response, creator>>

\* Lines 98-104 (and 124-127 when the body has no coordinates):
\* Event.findByIdAndUpdate returns the updated document, or null when the
\* Event is gone; `event._id` of line 106 then throws a TypeError (500).
updateEvent_FindByIdAndUpdate(h) ==
    /\ h.op = "update" /\ h.pc = "Event.findByIdAndUpdate"
    /\ LET old == FindById(h.id)
           event == IF old = Absent THEN Absent ELSE Some(ApplyUpdate(old[1], h.body))
       IN /\ events' = IF old = Absent THEN events
                       ELSE (events \ {old[1]}) \cup {event[1]}
          /\ IF h.body.coordinates = Absent
             THEN /\ Finish(h)
                  /\ response' = Respond("update", 200, h.user, h.id)
             ELSE IF event = Absent
             THEN /\ Finish(h)
                  /\ response' = Respond("update", 500, h.user, h.id)
             ELSE /\ Resume(h, [h EXCEPT !.pc = "Geofence.findOneAndUpdate",
                                             !.event = Some(IdOf(event[1]))])
                  /\ UNCHANGED response
    /\ UNCHANGED <<geofences, nextEventId, nextGeofenceId, started, creator>>

\* Lines 105-127: Geofence.findOneAndUpdate({event: event._id}, ...) updates
\* one matching Geofence, or nothing when none matches; then the 200 response.
updateEvent_GeofenceFindOneAndUpdate(h) ==
    /\ h.op = "update" /\ h.pc = "Geofence.findOneAndUpdate"
    /\ LET matching == {g \in geofences : g.event = h.event[1]._id}
       IN IF matching = {}
          THEN UNCHANGED geofences
          ELSE \E g \in matching :
                  geofences' = (geofences \ {g}) \cup {UpdatedGeofence(g, h.body)}
    /\ Finish(h)
    /\ response' = Respond("update", 200, h.user, h.id)
    /\ UNCHANGED <<events, nextEventId, nextGeofenceId, started, creator>>

\* ------------------------------------------------------------ deleteEvent
\* Lines 136-151: Event.findById, then a 404 or 403 check throws.
deleteEvent_Rejected(user, id) ==
    /\ CanReceive
    /\ AccessStatus(FindById(id), user) # 0
    /\ response' = Respond("delete", AccessStatus(FindById(id), user), user, id)
    /\ started' = started + 1
    /\ UNCHANGED <<events, geofences, nextEventId, nextGeofenceId, inflight, creator>>

\* Lines 136-154: Event.findById, the checks pass, and the handler awaits
\* Geofence.findOneAndDelete.
deleteEvent_FindById(user, id) ==
    /\ CanReceive
    /\ CanSuspend
    /\ AccessStatus(FindById(id), user) = 0
    /\ Suspend(Handler("delete", "Geofence.findOneAndDelete", user, id, EmptyBody,
                        Some(IdOf(FindById(id)[1]))))
    /\ started' = started + 1
    /\ UNCHANGED <<events, geofences, nextEventId, nextGeofenceId, response, creator>>

\* Line 154: Geofence.findOneAndDelete({event: event._id}) removes one
\* matching Geofence, or nothing when none matches.
deleteEvent_GeofenceFindOneAndDelete(h) ==
    /\ h.op = "delete" /\ h.pc = "Geofence.findOneAndDelete"
    /\ LET matching == {g \in geofences : g.event = h.event[1]._id}
       IN IF matching = {}
          THEN UNCHANGED geofences
          ELSE \E g \in matching : geofences' = geofences \ {g}
    /\ Resume(h, [h EXCEPT !.pc = "event.deleteOne"])
    /\ UNCHANGED <<events, nextEventId, nextGeofenceId, started, response, creator>>

\* Lines 157-162: event.deleteOne() removes the document with the fetched
\* _id (nothing when it is already gone); then the 200 response.
deleteEvent_DeleteOne(h) ==
    /\ h.op = "delete" /\ h.pc = "event.deleteOne"
    /\ events' = {e \in events : e._id # h.event[1]._id}
    /\ Finish(h)
    /\ response' = Respond("delete", 200, h.user, h.id)
    /\ UNCHANGED <<geofences, nextEventId, nextGeofenceId, started, creator>>

\* ------------------------------------------------------------------- Next
Next ==
    \/ \E u \in Users : createEvent_Forbidden(u)
    \/ \E u \in Users, b \in CreateBodies : createEvent_EventCreate(u, b)
    \/ \E h \in BagToSet(inflight) : createEvent_GeofenceCreate(h)
    \/ \E u \in Users, i \in EventIds : updateEvent_Rejected(u, i)
    \/ \E u \in Users, i \in EventIds, b \in UpdateBodies : updateEvent_FindById(u, i, b)
    \/ \E h \in BagToSet(inflight) : updateEvent_FindByIdAndUpdate(h)
    \/ \E h \in BagToSet(inflight) : updateEvent_GeofenceFindOneAndUpdate(h)
    \/ \E u \in Users, i \in EventIds : deleteEvent_Rejected(u, i)
    \/ \E u \in Users, i \in EventIds : deleteEvent_FindById(u, i)
    \/ \E h \in BagToSet(inflight) : deleteEvent_GeofenceFindOneAndDelete(h)
    \/ \E h \in BagToSet(inflight) : deleteEvent_DeleteOne(h)

Spec == Init /\ [][Next]_vars

\* ------------------------------------------------------ reading a step
\* Number of requests answered so far.
Completed == started - BagCardinality(inflight)

\* This step receives a request (runs a handler up to its first await).
Receives == started' = started + 1

\* This step sends a response.
Responds == started' - BagCardinality(inflight') = Completed + 1

\* This step receives a request and suspends its handler as h.
Suspends(h) == Receives /\ CopiesIn(h, inflight') > CopiesIn(h, inflight)

\* This step resumes the suspended handler h.
Steps(h) == ~Receives /\ CopiesIn(h, inflight') < CopiesIn(h, inflight)

\* This step resumes the suspended handler h and sends its response.
Completes(h) == Steps(h) /\ Responds

\* The user is neither the organizer of the stored Event id nor an admin.
Denied(user, id) ==
    \E e \in events : e._id = id /\ e.organizer # user /\ Role[user] # "admin"

GeofencesOf(gs, id) == {g \in gs : g.event = id}

\* ---------------------------------------------------------------- claims
\* C1: a createEvent whose caller's role is neither "ngo" nor "admin" is
\* answered 403 in the step that receives it, that step leaves the Event and
\* the Geofence collection as they were, and no handler of such a caller is
\* ever suspended at a persistence call.
C1_CreateForbiddenPersistsNothing ==
    [][/\ \A h \in BagToSet(inflight') :
            h.op = "create" => Role[h.user] \in {"ngo", "admin"}
       /\ (Responds /\ response'.op = "create"
               /\ Role[response'.user] \notin {"ngo", "admin"})
          => /\ Receives
             /\ response'.status = 403
             /\ events' = events
             /\ geofences' = geofences]_vars

\* C1 witness: a createEvent was answered 403 while an Event and its Geofence
\* were stored.
C1_Witness ==
    /\ response.op = "create" /\ response.status = 403
    /\ Role[response.user] = "user"
    /\ events # {} /\ geofences # {}

\* C2 as stated: when a createEvent is answered 201, exactly one Geofence
\* references the created Event, its center is the created Event's
\* coordinates, and its radius is the body's geofenceRadius when the body has
\* one and 500 otherwise.
C2_RadiusIsSuppliedOr500 ==
    [][\A h \in BagToSet(inflight) :
          (Completes(h) /\ h.op = "create" /\ response'.status = 201)
          => /\ Cardinality(GeofencesOf(geofences', h.id)) = 1
             /\ \A g \in GeofencesOf(geofences', h.id) :
                   /\ g.center = h.event[1].coordinates
                   /\ g.radius = IF h.body.geofenceRadius = Absent
                                 THEN 500 ELSE h.body.geofenceRadius[1]]_vars

\* C2 amended: when a createEvent is answered 201, exactly one Geofence
\* references the created Event, its center is the created Event's
\* coordinates, and its radius is the body's geofenceRadius when the body has
\* one that is not 0, and 500 otherwise.
C2_RadiusIsNonZeroSuppliedOr500 ==
    [][\A h \in BagToSet(inflight) :
          (Completes(h) /\ h.op = "create" /\ response'.status = 201)
          => /\ Cardinality(GeofencesOf(geofences', h.id)) = 1
             /\ \A g \in GeofencesOf(geofences', h.id) :
                   /\ g.center = h.event[1].coordinates
                   /\ g.radius = IF h.body.geofenceRadius \in {Absent, Some(0)}
                                 THEN 500 ELSE h.body.geofenceRadius[1]]_vars

\* C2 witness: a createEvent was answered 201 and the Geofence of its Event
\* has the radius 200 that the body supplied.
C2_Witness ==
    /\ response.op = "create" /\ response.status = 201
    /\ \E g \in geofences : g.event = response.id /\ g.radius = 200

\* C3: the Event that a createEvent step persists has the calling user as
\* its organizer, whatever organizer the body carried.
C3_OrganizerIsCaller ==
    [][\A e \in events' :
          (\A e0 \in events : e0._id # e._id)
          => \E h \in BagToSet(inflight') :
                /\ Suspends(h) /\ h.op = "create" /\ h.id = e._id
                /\ e.organizer = h.user
                /\ creator'[e._id] = h.user]_vars

\* C3 witness: an Event is stored by a createEvent that is still suspended,
\* with its caller as organizer.
C3_Witness ==
    \E h \in BagToSet(inflight) :
        /\ h.op = "create"
        /\ \E e \in events : e._id = h.id /\ e.organizer = h.user

\* C4: an updateEvent or deleteEvent on a stored Event by a user who is
\* neither its organizer nor an admin is answered 403 in the step that
\* receives it, and that step changes neither collection; no handler of such
\* a request is suspended at a persistence call.
C4_ForbiddenBeforeMutation ==
    [][/\ \A h \in BagToSet(inflight') :
            (Suspends(h) /\ h.op \in {"update", "delete"}) => ~Denied(h.user, h.id)
       /\ (Receives /\ Responds /\ response'.op \in {"update", "delete"}
               /\ Denied(response'.user, response'.id))
          => /\ response'.status = 403
             /\ events' = events
             /\ geofences' = geofences]_vars

\* C4 witness: a deleteEvent was answered 403 and the Event and its Geofence
\* are stored.
C4_Witness ==
    /\ response.op = "delete" /\ response.status = 403
    /\ \E e \in events : /\ e._id = response.id
                         /\ e.organizer # response.user
                         /\ \E g \in geofences : g.event = e._id

\* C5: an updateEvent or deleteEvent whose id resolves to no stored Event is
\* answered 404 in the step that receives it, whoever calls, and that step
\* changes neither collection.
C5_NotFoundBeforeAuthorization ==
    [][/\ \A h \in BagToSet(inflight') :
            (Suspends(h) /\ h.op \in {"update", "delete"})
            => \E e \in events : e._id = h.id
       /\ (Receives /\ Responds /\ response'.op \in {"update", "delete"}
               /\ \A e \in events : e._id # response'.id)
          => /\ response'.status = 404
             /\ events' = events
             /\ geofences' = geofences]_vars

\* C5 witness: a caller of role "user" was answered 404 for an updateEvent on
\* an id that is not stored, while another Event is stored.
C5_Witness ==
    /\ response.op = "update" /\ response.status = 404
    /\ Role[response.user] = "user"
    /\ events # {}
    /\ \A e \in events : e._id # response.id

\* C6: the step that answers 200 to an updateEvent whose body has coordinates
\* leaves the Geofence of the Event with radius 500 when the body has no
\* geofenceRadius and with level "low" when it has no trafficImpact; no step
\* of an updateEvent whose body has no coordinates changes a Geofence.
C6_OmittedFieldsReset ==
    [][\A h \in BagToSet(inflight) \cup BagToSet(inflight') :
          /\ (h \in BagToSet(inflight) /\ Completes(h) /\ h.op = "update"
                 /\ response'.status = 200 /\ h.body.coordinates # Absent)
             => \A g \in GeofencesOf(geofences', h.id) :
                   /\ h.body.geofenceRadius = Absent => g.radius = 500
                   /\ h.body.trafficImpact = Absent => g.level = "low"
          /\ (h.op = "update" /\ h.body.coordinates = Absent
                 /\ (Suspends(h) \/ (h \in BagToSet(inflight) /\ Steps(h))))
             => geofences' = geofences]_vars

\* C6 witness: an updateEvent with coordinates and no geofenceRadius is about
\* to update a Geofence whose radius is 200.
C6_Witness ==
    \E h \in BagToSet(inflight) :
        /\ h.op = "update" /\ h.pc = "Geofence.findOneAndUpdate"
        /\ h.body.geofenceRadius = Absent /\ h.body.trafficImpact = Absent
        /\ \E g \in geofences : g.event = h.id /\ g.radius = 200 /\ g.level = "high"

\* C7: when a deleteEvent is answered 200, neither the Event nor a Geofence
\* referencing it is stored, and the step that removes the Event finds no
\* Geofence of it left to remove.
C7_DeleteLeavesNoGeofence ==
    [][\A h \in BagToSet(inflight) :
          (Completes(h) /\ h.op = "delete" /\ response'.status = 200)
          => /\ \A e \in events' : e._id # h.id
             /\ GeofencesOf(geofences, h.id) = {}
             /\ GeofencesOf(geofences', h.id) = {}]_vars

\* C8: when no request is in flight, the center of every stored Geofence is
\* the coordinates of the Event it references.
C8_CenterTracksCoordinates ==
    inflight = EmptyBag
    => \A g \in geofences : \A e \in events :
          e._id = g.event => g.center = e.coordinates

\* C9: the organizer of every stored Event is the user whose createEvent
\* persisted it.
C9_OrganizerIsCreator ==
    \A e \in events : e.organizer = creator[e._id]

\* C10: when no request is in flight, every stored Geofence references a
\* stored Event and no Event is referenced by two Geofences.
C10_NoOrphanGeofence ==
    inflight = EmptyBag
    => /\ \A g \in geofences : \E e \in events : e._id = g.event
       /\ \A e \in events : Cardinality(GeofencesOf(geofences, e._id)) <= 1

====
